---- MODULE Spec2Model ----
(***************************************************************************)
(* Model of the bsv-claude-agents installer (bin/cli.js).                  *)
(*                                                                         *)
(* The installer is one linear script: ensure ~/.claude exists, clone /    *)
(* pull / copy the agents repository into the cache ~/.claude/             *)
(* bsv-claude-agents, then link every agents/*.md file whose name          *)
(* contains "bsv" into ~/.claude/agents, falling back to a copy when the   *)
(* link cannot be created.  The state is the part of the file system the   *)
(* script touches plus the script's position, its console output and the   *)
(* file-system / git calls it has made in the current run.                 *)
(***************************************************************************)
EXTENDS Integers, Sequences, FiniteSets, TLC

VARIABLES
    pc,          \* position of the script: idle, ensureRoot, sync, links, loop, unlink, link, copy, finish, done
    runs,        \* number of installer runs started so far
    isLocal,     \* process.argv.includes('--local') of the current run
    isWindows,   \* os.platform() === 'win32'
    exitCode,    \* exit code of the current run (0 unless process.exit(1))
    log,         \* console output of the current run
    calls,       \* file-system and git calls made by the current run
    claudeDir,   \* ~/.claude exists
    agentsDir,   \* ~/.claude/agents exists
    dest,        \* entries of ~/.claude/agents: file name -> entry
    outside,     \* files outside the tool's directories that foreign symlinks point to
    cache,       \* ~/.claude/bsv-claude-agents
    source,      \* the tree the sync of the current run read (remote repository or working directory)
    agentFiles,  \* the filtered listing of the current run
    idx,         \* position of the for-loop in agentFiles
    atStart,     \* what the current process fixed when it started: whether the run before it
                 \* exited 0, the cache and the destination contents, and process.cwd()
    procs        \* two installer processes inside their link loops at the same time
                 \* (no process there in the runs that follow one another)

vars == <<pc, runs, isLocal, isWindows, exitCode, log, calls, claudeDir, agentsDir,
          dest, outside, cache, source, agentFiles, idx, atStart, procs>>

----------------------------------------------------------------------------
(* Bounds *)

MaxRuns == 2
MaxVersion == 2

----------------------------------------------------------------------------
(* File names.  Chars spells a name out as its sequence of characters, so
   that endsWith / includes are computed the way String.prototype does. *)

ABsv == "a-bsv.md"
BsvX == "bsv-x.md"
BsvY == "bsv-y.txt"
Other == "other.md"

Chars(n) ==
    CASE n = ABsv -> <<"a", "-", "b", "s", "v", ".", "m", "d">>
      [] n = BsvX -> <<"b", "s", "v", "-", "x", ".", "m", "d">>
      [] n = BsvY -> <<"b", "s", "v", "-", "y", ".", "t", "x", "t">>
      [] n = Other -> <<"o", "t", "h", "e", "r", ".", "m", "d">>

\* Directory listings come back in name order.
NameOrder == <<ABsv, BsvX, BsvY, Other>>
Names == {NameOrder[i] : i \in 1..Len(NameOrder)}
NoFile == ""

EndsWith(s, suffix) ==
    /\ Len(s) >= Len(suffix)
    /\ SubSeq(s, Len(s) - Len(suffix) + 1, Len(s)) = suffix

Includes(s, sub) ==
    \E i \in 1..(Len(s) - Len(sub) + 1) : SubSeq(s, i, i + Len(sub) - 1) = sub

\* Variant of the filter: startsWith('bsv') in place of includes('bsv').
IsAgentFilePrefix(file) ==
    EndsWith(Chars(file), <<".", "m", "d">>) /\ SubSeq(Chars(file), 1, 3) = <<"b", "s", "v">>

\* Variant of the filter: || in place of &&.
IsAgentFileAny(file) ==
    EndsWith(Chars(file), <<".", "m", "d">>) \/ Includes(Chars(file), <<"b", "s", "v">>)

\* file.endsWith('.md') && file.includes('bsv')
IsAgentFile(file) ==
    EndsWith(Chars(file), <<".", "m", "d">>) /\ Includes(Chars(file), <<"b", "s", "v">>)

----------------------------------------------------------------------------
(* Directory trees: the remote repository, the working directory, the cache. *)

EmptyDir == [n \in {} |-> 0]
NoRepo == [exists |-> FALSE, hasAgents |-> FALSE, agents |-> EmptyDir]

NameIndex(n) == CHOOSE i \in 1..Len(NameOrder) : NameOrder[i] = n

\* Content of file n in version v of a tree: distinct per file and per version.
ContentOf(n, v) == (NameIndex(n) - 1) * MaxVersion + v

\* A repository whose agents folder holds the files S at version v.
Tree(S, v) == [exists |-> TRUE, hasAgents |-> TRUE, agents |-> [n \in S |-> ContentOf(n, v)]]

\* The trees a sync can read: a repository without an agents folder, one with
\* all four files at some version, and one with bsv-x.md, other.md and
\* bsv-y.txt only.
Trees ==
    {[exists |-> TRUE, hasAgents |-> FALSE, agents |-> EmptyDir]}
    \cup {Tree(Names, v) : v \in 1..MaxVersion}
    \cup {Tree({BsvX, Other, BsvY}, 1)}

\* Variant: the previous cache is not removed before the copy.
RmSyncKeep(dir) == dir

\* fs.rmSync(dir, { recursive: true, force: true })
RmSync(dir) == NoRepo

\* fs.cpSync(src, dst, { recursive: true }): files of src overwrite those of
\* dst, other files of dst stay.
CpSync(src, dst) ==
    IF ~dst.exists THEN src
    ELSE [exists |-> TRUE,
          hasAgents |-> src.hasAgents \/ dst.hasAgents,
          agents |-> [n \in (DOMAIN src.agents) \cup (DOMAIN dst.agents) |->
                        IF n \in DOMAIN src.agents THEN src.agents[n] ELSE dst.agents[n]]]

\* What a failed recursive copy can leave at the destination.
PartialCopies == {NoRepo, [exists |-> TRUE, hasAgents |-> FALSE, agents |-> EmptyDir]}

\* fs.readdirSync(dir)
ReadDirSync(dir) == SelectSeq(NameOrder, LAMBDA n : n \in DOMAIN dir)

----------------------------------------------------------------------------
(* Destination entries *)

\* Variant: every source path names the first agent file.
CachePathFixed(n) == [dir |-> "cache", name |-> ABsv]

CachePath(n) == [dir |-> "cache", name |-> n]
OutsidePath(n) == [dir |-> "outside", name |-> n]

\* Variant: the symbolic link points at a path of the same name outside the cache.
SymlinkElsewhere(path) ==
    [kind |-> "symlink", target |-> [dir |-> "outside", name |-> path.name], content |-> 0]

Symlink(path) == [kind |-> "symlink", target |-> path, content |-> 0]
HardLink(c) == [kind |-> "hardlink", target |-> [dir |-> "none", name |-> NoFile], content |-> c]
RegularFile(c) == [kind |-> "file", target |-> [dir |-> "none", name |-> NoFile], content |-> c]

\* The content a path in the cache's agents folder or outside resolves to:
\* a set with the content, empty when the path does not exist.
ReadPath(path, repo, out) ==
    IF path.dir = "cache"
    THEN IF repo.exists /\ repo.hasAgents /\ path.name \in DOMAIN repo.agents
         THEN {repo.agents[path.name]} ELSE {}
    ELSE IF path.name \in DOMAIN out THEN {out[path.name]} ELSE {}

\* The content an entry resolves to (symbolic links are followed).
Resolve(entry, repo, out) ==
    IF entry.kind = "symlink" THEN ReadPath(entry.target, repo, out) ELSE {entry.content}

\* fs.existsSync(path) follows symbolic links: a dangling link does not exist.
ExistsSync(n, d, repo, out) == n \in DOMAIN d /\ Resolve(d[n], repo, out) # {}

\* lstat level: the path is occupied, whatever it resolves to.
Occupied(n, d) == n \in DOMAIN d

\* Variant: the removal takes every entry of the directory with it.
RemoveClears(d, n) == [m \in {} |-> d[m]]

Remove(d, n) == [m \in (DOMAIN d) \ {n} |-> d[m]]
Put(d, n, e) == [m \in (DOMAIN d) \cup {n} |-> IF m = n THEN e ELSE d[m]]

\* The destination as a reader sees it: name -> content the entry resolves to.
DestView == [n \in DOMAIN dest |-> Resolve(dest[n], cache, outside)]

----------------------------------------------------------------------------
(* Console output and call trace *)

L(m, f) == [msg |-> m, file |-> f]
Call(o, f, k) == [op |-> o, file |-> f, ok |-> k]

Logged(m, f) == \E i \in 1..Len(log) : log[i] = L(m, f)
LoggedMsg(m) == \E i \in 1..Len(log) : log[i].msg = m
Called(o, f, k) == \E i \in 1..Len(calls) : calls[i] = Call(o, f, k)
CalledOp(o) == \E i \in 1..Len(calls) : calls[i].op = o

\* Error codes a failing link call can carry.
ErrCodes == {"EPERM", "EIO"}

----------------------------------------------------------------------------
(* Initial states: a machine on which the installer has not run yet.  The
   user may already have entries in ~/.claude/agents: regular files, or a
   symbolic link whose target does not exist. *)

UserFile == RegularFile(ContentOf(Other, 1))
DanglingLink == Symlink(OutsidePath(BsvX))

\* The destination directories the first run can find.
InitDests ==
    {EmptyDir,
     [n \in {BsvX} |-> DanglingLink],
     [n \in {BsvX, Other} |-> UserFile]}

Init ==
    /\ pc = "idle"
    /\ runs = 0
    /\ isLocal = FALSE
    /\ isWindows \in BOOLEAN
    /\ exitCode = 0
    /\ log = <<>>
    /\ calls = <<>>
    /\ claudeDir \in BOOLEAN
    /\ agentsDir = claudeDir
    /\ dest \in InitDests
    /\ (~agentsDir => dest = EmptyDir)
    /\ outside = EmptyDir
    /\ cache = NoRepo
    /\ source = NoRepo
    /\ agentFiles = <<>>
    /\ idx = 1
    /\ atStart = [prevOk |-> FALSE, cache |-> NoRepo, view |-> EmptyDir, cwd |-> "elsewhere"]
    /\ procs = <<>>

----------------------------------------------------------------------------
(* main: the top-level flow and its catch block *)

fsVars == <<claudeDir, agentsDir, dest, outside, cache>>

\* Variant of the catch block: the error is printed, the exit code stays 0.
ThrowExitZero(lg, cs) ==
    /\ log' = Append(lg, L("error", NoFile))
    /\ calls' = cs
    /\ exitCode' = 0
    /\ pc' = "done"

\* An exception reaches main's catch: print the error, process.exit(1).
Throw(lg, cs) ==
    /\ log' = Append(lg, L("error", NoFile))
    /\ calls' = cs
    /\ exitCode' = 1
    /\ pc' = "done"

\* Where the working directory of a process can be: a directory that has
\* nothing to do with ~/.claude, the cache directory itself, or ~/.claude
\* (which contains the cache path).
WorkingDirs == {"elsewhere", "cache", "root"}

\* const LOCAL_REPO = process.cwd()
LOCAL_REPO == atStart.cwd

\* fs.cpSync(LOCAL_REPO, REPO_DIR) cannot copy: the source is the destination
\* (just removed) or contains it ("cannot copy to a subdirectory of self").
CopyOntoSelf == LOCAL_REPO # "elsewhere"

\* A new process starts in working directory dir (it matters in local mode
\* only, and a process starts in a directory that exists): module constants
\* are evaluated, main() prints its banner.
main_start(local, dir) ==
    /\ pc \in {"idle", "done"}
    /\ runs < MaxRuns
    /\ ~local => dir = "elsewhere"
    /\ dir = "cache" => cache.exists
    /\ dir = "root" => claudeDir
    /\ runs' = runs + 1
    /\ isLocal' = local
    /\ exitCode' = 0
    /\ log' = <<L("start", NoFile)>>
    /\ calls' = <<>>
    /\ source' = NoRepo
    /\ agentFiles' = <<>>
    /\ idx' = 1
    /\ atStart' = [prevOk |-> pc = "done" /\ exitCode = 0, cache |-> cache, view |-> DestView,
                   cwd |-> dir]
    /\ pc' = "ensureRoot"
    /\ UNCHANGED <<isWindows, fsVars>>
    /\ UNCHANGED procs

\* Variant: the root directory is reported as created but never made.
ensureClaudeDirNoCreate(ok) ==
    /\ pc = "ensureRoot"
    /\ IF claudeDir
       THEN /\ pc' = "sync"
            /\ UNCHANGED <<log, calls, exitCode>>
       ELSE IF ok
            THEN /\ log' = Append(log, L("created_dir", NoFile))
                 /\ calls' = Append(calls, Call("mkdirSync", NoFile, TRUE))
                 /\ pc' = "sync"
                 /\ UNCHANGED exitCode
            ELSE Throw(log, Append(calls, Call("mkdirSync", NoFile, FALSE)))
    /\ UNCHANGED <<runs, isLocal, isWindows, claudeDir, agentsDir, dest, outside, cache,
                   source, agentFiles, idx, atStart>>
    /\ UNCHANGED procs

\* Variant: mkdirSync is called and reported without the existsSync test.
ensureClaudeDirAlways(ok) ==
    /\ pc = "ensureRoot"
    /\ IF ok
       THEN /\ claudeDir' = TRUE
            /\ log' = Append(log, L("created_dir", NoFile))
            /\ calls' = Append(calls, Call("mkdirSync", NoFile, TRUE))
            /\ pc' = "sync"
            /\ UNCHANGED exitCode
       ELSE /\ Throw(log, Append(calls, Call("mkdirSync", NoFile, FALSE)))
            /\ UNCHANGED claudeDir
    /\ UNCHANGED <<runs, isLocal, isWindows, agentsDir, dest, outside, cache, source,
                   agentFiles, idx, atStart>>
    /\ UNCHANGED procs

\* await ensureDirectoryExists(CLAUDE_DIR)
ensureClaudeDir(ok) ==
    /\ pc = "ensureRoot"
    /\ IF claudeDir
       THEN /\ pc' = "sync"
            /\ UNCHANGED <<claudeDir, log, calls, exitCode>>
       ELSE IF ok
            THEN /\ claudeDir' = TRUE
                 /\ log' = Append(log, L("created_dir", NoFile))
                 /\ calls' = Append(calls, Call("mkdirSync", NoFile, TRUE))
                 /\ pc' = "sync"
                 /\ UNCHANGED exitCode
            ELSE /\ Throw(log, Append(calls, Call("mkdirSync", NoFile, FALSE)))
                 /\ UNCHANGED claudeDir
    /\ UNCHANGED <<runs, isLocal, isWindows, agentsDir, dest, outside, cache, source,
                   agentFiles, idx, atStart>>
    /\ UNCHANGED procs

\* Variant: a failed sync is swallowed and the link step still runs.
cloneOrUpdateRepoSwallow(t, ok, left) ==
    /\ pc = "sync"
    /\ source' = t
    /\ cache' = IF ok THEN t ELSE cache
    /\ log' = log
    /\ calls' = Append(calls, Call(IF isLocal THEN "cpSync" ELSE IF cache.exists THEN "pull" ELSE "clone", NoFile, ok))
    /\ pc' = "links"
    /\ UNCHANGED <<runs, isLocal, isWindows, exitCode, claudeDir, agentsDir, dest, outside,
                   agentFiles, idx, atStart>>
    /\ UNCHANGED procs

\* Variant: the sync pulls and then clones, whatever the mode.
cloneOrUpdateRepoBoth(t, ok, left) ==
    /\ pc = "sync"
    /\ source' = t
    /\ cache' = IF ok THEN t ELSE cache
    /\ log' = log
    /\ calls' = calls \o <<Call("pull", NoFile, ok), Call("clone", NoFile, ok)>>
    /\ IF ok THEN pc' = "links" /\ UNCHANGED exitCode
             ELSE Throw(log, calls \o <<Call("pull", NoFile, ok)>>)
    /\ UNCHANGED <<runs, isLocal, isWindows, claudeDir, agentsDir, dest, outside,
                   agentFiles, idx, atStart>>
    /\ UNCHANGED procs

\* Variant: the local-mode removal takes the installation root instead of the cache.
cloneOrUpdateRepoRmRoot(t, ok, left) ==
    /\ pc = "sync"
    /\ source' = t
    /\ IF isLocal
       THEN LET rm == IF cache.exists
                      THEN <<Call("rmSync", NoFile, TRUE)>> ELSE <<>>
                removed == IF cache.exists THEN RmSync(cache) ELSE cache
                lg == Append(log, L("using_local", NoFile))
            IN  IF ok
                THEN /\ cache' = CpSync(t, removed)
                     /\ log' = Append(lg, L("local_copied", NoFile))
                     /\ calls' = calls \o rm \o <<Call("cpSync", NoFile, TRUE)>>
                     /\ pc' = "links"
                     /\ UNCHANGED exitCode
                ELSE /\ cache' = CpSync(left, removed)
                     /\ Throw(lg, calls \o rm \o <<Call("cpSync", NoFile, FALSE)>>)
       ELSE IF cache.exists
            THEN LET lg == Append(log, L("updating", NoFile))
                 IN  IF ok
                     THEN /\ cache' = t
                          /\ log' = Append(lg, L("updated", NoFile))
                          /\ calls' = Append(calls, Call("pull", NoFile, TRUE))
                          /\ pc' = "links"
                          /\ UNCHANGED exitCode
                     ELSE /\ cache' = cache
                          /\ Throw(lg, Append(calls, Call("pull", NoFile, FALSE)))
            ELSE LET lg == Append(log, L("cloning", NoFile))
                 IN  IF ok
                     THEN /\ cache' = t
                          /\ log' = Append(lg, L("cloned", NoFile))
                          /\ calls' = Append(calls, Call("clone", NoFile, TRUE))
                          /\ pc' = "links"
                          /\ UNCHANGED exitCode
                     ELSE /\ cache' = cache
                          /\ Throw(lg, Append(calls, Call("clone", NoFile, FALSE)))
    /\ claudeDir' = (claudeDir /\ ~(isLocal /\ cache.exists))
    /\ UNCHANGED <<runs, isLocal, isWindows, agentsDir, dest, outside,
                   agentFiles, idx, atStart>>
    /\ UNCHANGED procs

\* Variant: a failed pull takes the cache directory with it.
cloneOrUpdateRepoPullWipes(t, ok, left) ==
    /\ pc = "sync"
    /\ source' = t
    /\ IF isLocal
       THEN LET rm == IF cache.exists
                      THEN <<Call("rmSync", NoFile, TRUE)>> ELSE <<>>
                removed == IF cache.exists THEN RmSync(cache) ELSE cache
                lg == Append(log, L("using_local", NoFile))
            IN  IF ok
                THEN /\ cache' = CpSync(t, removed)
                     /\ log' = Append(lg, L("local_copied", NoFile))
                     /\ calls' = calls \o rm \o <<Call("cpSync", NoFile, TRUE)>>
                     /\ pc' = "links"
                     /\ UNCHANGED exitCode
                ELSE /\ cache' = CpSync(left, removed)
                     /\ Throw(lg, calls \o rm \o <<Call("cpSync", NoFile, FALSE)>>)
       ELSE IF cache.exists
            THEN LET lg == Append(log, L("updating", NoFile))
                 IN  IF ok
                     THEN /\ cache' = t
                          /\ log' = Append(lg, L("updated", NoFile))
                          /\ calls' = Append(calls, Call("pull", NoFile, TRUE))
                          /\ pc' = "links"
                          /\ UNCHANGED exitCode
                     ELSE /\ cache' = NoRepo
                          /\ Throw(lg, Append(calls, Call("pull", NoFile, FALSE)))
            ELSE LET lg == Append(log, L("cloning", NoFile))
                 IN  IF ok
                     THEN /\ cache' = t
                          /\ log' = Append(lg, L("cloned", NoFile))
                          /\ calls' = Append(calls, Call("clone", NoFile, TRUE))
                          /\ pc' = "links"
                          /\ UNCHANGED exitCode
                     ELSE /\ cache' = cache
                          /\ Throw(lg, Append(calls, Call("clone", NoFile, FALSE)))
    /\ UNCHANGED <<runs, isLocal, isWindows, claudeDir, agentsDir, dest, outside,
                   agentFiles, idx, atStart>>
    /\ UNCHANGED procs

\* await cloneOrUpdateRepo(): t is the tree read (the working directory in
\* local mode, the remote repository otherwise), ok whether the copy / pull /
\* clone succeeds, left what a failed copy leaves behind.
cloneOrUpdateRepo(t, ok, left) ==
    /\ pc = "sync"
    /\ source' = IF isLocal /\ CopyOntoSelf THEN source ELSE t
    /\ IF isLocal
       THEN LET rm == IF cache.exists
                      THEN <<Call("rmSync", NoFile, TRUE)>> ELSE <<>>
                removed == IF cache.exists THEN RmSync(cache) ELSE cache
                lg == Append(log, L("using_local", NoFile))
            IN  IF ok /\ ~CopyOntoSelf
                THEN /\ cache' = CpSync(t, removed)
                     /\ log' = Append(lg, L("local_copied", NoFile))
                     /\ calls' = calls \o rm \o <<Call("cpSync", NoFile, TRUE)>>
                     /\ pc' = "links"
                     /\ UNCHANGED exitCode
                ELSE /\ cache' = IF CopyOntoSelf THEN removed ELSE CpSync(left, removed)
                     /\ Throw(lg, calls \o rm \o <<Call("cpSync", NoFile, FALSE)>>)
       ELSE IF cache.exists
            THEN LET lg == Append(log, L("updating", NoFile))
                 IN  IF ok
                     THEN /\ cache' = t
                          /\ log' = Append(lg, L("updated", NoFile))
                          /\ calls' = Append(calls, Call("pull", NoFile, TRUE))
                          /\ pc' = "links"
                          /\ UNCHANGED exitCode
                     ELSE /\ cache' = cache
                          /\ Throw(lg, Append(calls, Call("pull", NoFile, FALSE)))
            ELSE LET lg == Append(log, L("cloning", NoFile))
                 IN  IF ok
                     THEN /\ cache' = t
                          /\ log' = Append(lg, L("cloned", NoFile))
                          /\ calls' = Append(calls, Call("clone", NoFile, TRUE))
                          /\ pc' = "links"
                          /\ UNCHANGED exitCode
                     ELSE /\ cache' = cache
                          /\ Throw(lg, Append(calls, Call("clone", NoFile, FALSE)))
    /\ UNCHANGED <<runs, isLocal, isWindows, claudeDir, agentsDir, dest, outside,
                   agentFiles, idx, atStart>>
    /\ UNCHANGED procs

----------------------------------------------------------------------------
(* createLinks *)

\* Variant: the agents directory is made before the source folder is tested.
createLinksEnsureFirst(ok) ==
    /\ pc = "links"
    /\ IF ~(cache.exists /\ cache.hasAgents)
       THEN /\ log' = Append(log, L("agents_not_found", NoFile))
            /\ pc' = "finish"
            /\ agentsDir' = TRUE
            /\ UNCHANGED <<calls, exitCode, agentFiles>>
       ELSE IF ~agentsDir /\ ~ok
            THEN /\ Throw(log, Append(calls, Call("mkdirSync", NoFile, FALSE)))
                 /\ UNCHANGED <<agentsDir, agentFiles>>
            ELSE /\ agentsDir' = TRUE
                 /\ agentFiles' = SelectSeq(ReadDirSync(cache.agents), IsAgentFile)
                 /\ log' = (IF agentsDir THEN log ELSE Append(log, L("created_dir", NoFile)))
                              \o <<L("creating_links", NoFile)>>
                 /\ calls' = (IF agentsDir THEN calls
                              ELSE Append(calls, Call("mkdirSync", NoFile, TRUE)))
                              \o <<Call("readdirSync", NoFile, TRUE)>>
                 /\ pc' = "loop"
                 /\ UNCHANGED exitCode
    /\ idx' = 1
    /\ UNCHANGED <<runs, isLocal, isWindows, claudeDir, dest, outside, cache, source, atStart>>
    /\ UNCHANGED procs

\* Entry of createLinks: the agents folder check, ensureDirectoryExists(AGENTS_DIR),
\* the filtered listing and the "Creating ..." line.
createLinks(ok) ==
    /\ pc = "links"
    /\ IF ~(cache.exists /\ cache.hasAgents)
       THEN /\ log' = Append(log, L("agents_not_found", NoFile))
            /\ pc' = "finish"
            /\ UNCHANGED <<agentsDir, calls, exitCode, agentFiles>>
       ELSE IF ~agentsDir /\ ~ok
            THEN /\ Throw(log, Append(calls, Call("mkdirSync", NoFile, FALSE)))
                 /\ UNCHANGED <<agentsDir, agentFiles>>
            ELSE /\ agentsDir' = TRUE
                 /\ agentFiles' = SelectSeq(ReadDirSync(cache.agents), IsAgentFile)
                 /\ log' = (IF agentsDir THEN log ELSE Append(log, L("created_dir", NoFile)))
                              \o <<L("creating_links", NoFile)>>
                 /\ calls' = (IF agentsDir THEN calls
                              ELSE Append(calls, Call("mkdirSync", NoFile, TRUE)))
                              \o <<Call("readdirSync", NoFile, TRUE)>>
                 /\ pc' = "loop"
                 /\ UNCHANGED exitCode
    /\ idx' = 1
    /\ UNCHANGED <<runs, isLocal, isWindows, claudeDir, dest, outside, cache, source, atStart>>
    /\ UNCHANGED procs

\* Variant: the existing entry is never removed.
createLinks_existsSkip ==
    /\ pc = "loop"
    /\ pc' = IF idx > Len(agentFiles) THEN "finish" ELSE "link"
    /\ UNCHANGED <<runs, isLocal, isWindows, exitCode, log, calls, fsVars, source,
                   agentFiles, idx, atStart>>
    /\ UNCHANGED procs

\* Variant: the loop ends one file early.
createLinks_existsEarly ==
    /\ pc = "loop"
    /\ pc' = IF idx >= Len(agentFiles) THEN "finish"
             ELSE IF ExistsSync(agentFiles[idx], dest, cache, outside) THEN "unlink"
             ELSE "link"
    /\ UNCHANGED <<runs, isLocal, isWindows, exitCode, log, calls, fsVars, source,
                   agentFiles, idx, atStart>>
    /\ UNCHANGED procs

\* Head of the for-loop and `if (fs.existsSync(targetPath))`.
createLinks_exists ==
    /\ pc = "loop"
    /\ pc' = IF idx > Len(agentFiles) THEN "finish"
             ELSE IF ExistsSync(agentFiles[idx], dest, cache, outside) THEN "unlink"
             ELSE "link"
    /\ UNCHANGED <<runs, isLocal, isWindows, exitCode, log, calls, fsVars, source,
                   agentFiles, idx, atStart>>
    /\ UNCHANGED procs

\* Variant: a failed removal is handled per file, the loop goes on with the next file.
createLinks_unlinkCaught(ok) ==
    /\ pc = "unlink"
    /\ LET file == agentFiles[idx]
       IN  IF ok
           THEN /\ dest' = Remove(dest, file)
                /\ log' = Append(log, L("removed", file))
                /\ calls' = Append(calls, Call("unlinkSync", file, TRUE))
                /\ pc' = "link"
                /\ UNCHANGED <<exitCode, idx>>
           ELSE /\ log' = Append(log, L("link_failed", file))
                /\ calls' = Append(calls, Call("unlinkSync", file, FALSE))
                /\ pc' = "loop"
                /\ idx' = idx + 1
                /\ UNCHANGED <<dest, exitCode>>
    /\ UNCHANGED <<runs, isLocal, isWindows, claudeDir, agentsDir, outside, cache, source,
                   agentFiles, atStart>>
    /\ UNCHANGED procs

\* fs.unlinkSync(targetPath): outside the try block, so a failure is fatal.
createLinks_unlink(ok) ==
    /\ pc = "unlink"
    /\ LET file == agentFiles[idx]
       IN  IF ok
           THEN /\ dest' = Remove(dest, file)
                /\ log' = Append(log, L("removed", file))
                /\ calls' = Append(calls, Call("unlinkSync", file, TRUE))
                /\ pc' = "link"
                /\ UNCHANGED exitCode
           ELSE /\ Throw(log, Append(calls, Call("unlinkSync", file, FALSE)))
                /\ UNCHANGED dest
    /\ UNCHANGED <<runs, isLocal, isWindows, claudeDir, agentsDir, outside, cache, source,
                   agentFiles, idx, atStart>>
    /\ UNCHANGED procs

\* The error of the link call: EEXIST when the path is occupied, else the
\* error the platform raises, "none" when it raises none.
LinkError(file, err) == IF Occupied(file, dest) THEN "EEXIST" ELSE err

\* Variant of the link step that makes a symbolic link on every platform.
createLinks_linkAlwaysSym(err) ==
    /\ pc = "link"
    /\ LET file == agentFiles[idx]
           e == LinkError(file, err)
       IN  IF e = "none"
           THEN /\ dest' = Put(dest, file, Symlink(CachePath(file)))
                /\ log' = Append(log, L("created_link", file))
                /\ calls' = Append(calls, Call("symlinkSync", file, TRUE))
                /\ idx' = idx + 1
                /\ pc' = "loop"
           ELSE /\ log' = log \o <<L("link_failed", file)>>
                              \o (IF isWindows /\ e = "EPERM"
                                  THEN <<L("eperm_note", file)>> ELSE <<>>)
                              \o <<L("fallback", file)>>
                /\ calls' = Append(calls, Call("symlinkSync", file, FALSE))
                /\ pc' = "copy"
                /\ UNCHANGED <<dest, idx>>
    /\ UNCHANGED <<runs, isLocal, isWindows, exitCode, claudeDir, agentsDir, outside, cache,
                   source, agentFiles, atStart>>
    /\ UNCHANGED procs

\* try { fs.linkSync / fs.symlinkSync } and the first part of the catch block.
createLinks_link(err) ==
    /\ pc = "link"
    /\ LET file == agentFiles[idx]
           op == IF isWindows THEN "linkSync" ELSE "symlinkSync"
           e == LinkError(file, err)
       IN  IF e = "none"
           THEN /\ dest' = Put(dest, file,
                               IF isWindows THEN HardLink(cache.agents[file])
                               ELSE Symlink(CachePath(file)))
                /\ log' = Append(log, L("created_link", file))
                /\ calls' = Append(calls, Call(op, file, TRUE))
                /\ idx' = idx + 1
                /\ pc' = "loop"
           ELSE /\ log' = log \o <<L("link_failed", file)>>
                              \o (IF isWindows /\ e = "EPERM"
                                  THEN <<L("eperm_note", file)>> ELSE <<>>)
                              \o <<L("fallback", file)>>
                /\ calls' = Append(calls, Call(op, file, FALSE))
                /\ pc' = "copy"
                /\ UNCHANGED <<dest, idx>>
    /\ UNCHANGED <<runs, isLocal, isWindows, exitCode, claudeDir, agentsDir, outside, cache,
                   source, agentFiles, atStart>>
    /\ UNCHANGED procs

\* fs.copyFileSync(sourcePath, targetPath) writes through a symbolic link at
\* the target path, replaces the content of another entry, creates a regular
\* file when the path is free.
CopyFileSync(file, c) ==
    IF Occupied(file, dest) /\ dest[file].kind = "symlink"
    THEN IF dest[file].target.dir = "cache"
         THEN /\ cache' = [cache EXCEPT !.agents = Put(cache.agents, dest[file].target.name, c)]
              /\ UNCHANGED <<dest, outside>>
         ELSE /\ outside' = Put(outside, dest[file].target.name, c)
              /\ UNCHANGED <<dest, cache>>
    ELSE /\ dest' = Put(dest, file,
                        IF Occupied(file, dest) THEN [dest[file] EXCEPT !.content = c]
                        ELSE RegularFile(c))
         /\ UNCHANGED <<outside, cache>>

\* Variant: the error of the fallback copy is not caught.
createLinks_copyThrows(ok) ==
    /\ pc = "copy"
    /\ LET file == agentFiles[idx]
       IN  IF ok
           THEN /\ CopyFileSync(file, cache.agents[file])
                /\ log' = log \o <<L("copied", file), L("warn_copy", file)>>
                /\ calls' = Append(calls, Call("copyFileSync", file, TRUE))
                /\ pc' = "loop"
                /\ idx' = idx + 1
                /\ UNCHANGED exitCode
           ELSE /\ Throw(log, Append(calls, Call("copyFileSync", file, FALSE)))
                /\ UNCHANGED <<dest, outside, cache, idx>>
    /\ UNCHANGED <<runs, isLocal, isWindows, claudeDir, agentsDir, source,
                   agentFiles, atStart>>
    /\ UNCHANGED procs

\* The fallback: try { fs.copyFileSync } catch { console.error }.
createLinks_copy(ok) ==
    /\ pc = "copy"
    /\ LET file == agentFiles[idx]
       IN  IF ok
           THEN /\ CopyFileSync(file, cache.agents[file])
                /\ log' = log \o <<L("copied", file), L("warn_copy", file)>>
                /\ calls' = Append(calls, Call("copyFileSync", file, TRUE))
           ELSE /\ log' = Append(log, L("copy_failed", file))
                /\ calls' = Append(calls, Call("copyFileSync", file, FALSE))
                /\ UNCHANGED <<dest, outside, cache>>
    /\ idx' = idx + 1
    /\ pc' = "loop"
    /\ UNCHANGED <<runs, isLocal, isWindows, exitCode, claudeDir, agentsDir, source,
                   agentFiles, atStart>>
    /\ UNCHANGED procs

\* createLinks returned: the two closing lines of main's try block.
main_finish ==
    /\ pc = "finish"
    /\ log' = log \o <<L("success", NoFile), L("available", NoFile)>>
    /\ pc' = "done"
    /\ UNCHANGED <<runs, isLocal, isWindows, exitCode, calls, fsVars, source,
                   agentFiles, idx, atStart>>
    /\ UNCHANGED procs

----------------------------------------------------------------------------

Next ==
    \/ \E local \in BOOLEAN, dir \in WorkingDirs : main_start(local, dir)
    \/ \E ok \in BOOLEAN : ensureClaudeDir(ok)
    \/ \E t \in Trees, ok \in BOOLEAN, left \in PartialCopies : cloneOrUpdateRepo(t, ok, left)
    \/ \E ok \in BOOLEAN : createLinks(ok)
    \/ createLinks_exists
    \/ \E ok \in BOOLEAN : createLinks_unlink(ok)
    \/ \E err \in ErrCodes \cup {"none"} : createLinks_link(err)
    \/ \E ok \in BOOLEAN : createLinks_copy(ok)
    \/ main_finish

Spec == Init /\ [][Next]_vars

\* The steps of a started process.  The script is one synchronous forward
\* pass (execSync and the *Sync calls block and return or throw), so a process
\* that has started keeps taking its next step; only starting a run is left
\* to the user.
RunStep ==
    \/ \E ok \in BOOLEAN : ensureClaudeDir(ok)
    \/ \E t \in Trees, ok \in BOOLEAN, left \in PartialCopies : cloneOrUpdateRepo(t, ok, left)
    \/ \E ok \in BOOLEAN : createLinks(ok)
    \/ createLinks_exists
    \/ \E ok \in BOOLEAN : createLinks_unlink(ok)
    \/ \E err \in ErrCodes \cup {"none"} : createLinks_link(err)
    \/ \E ok \in BOOLEAN : createLinks_copy(ok)
    \/ main_finish

FairSpec == Spec /\ WF_vars(RunStep)

----------------------------------------------------------------------------
(* The older script (cli.js 130-224).  Its constants, ensureDirectoryExists,
   cloneOrUpdateRepo and main are line for line those of the current script,
   so their actions are shared; its link step is createSymlinks, which makes
   symbolic links on every platform and has no try / catch. *)

\* Entry of createSymlinks: the agents folder check, ensureDirectoryExists(AGENTS_DIR)
\* and the filtered listing; nothing is printed before the loop.
createSymlinks(ok) ==
    /\ pc = "links"
    /\ IF ~(cache.exists /\ cache.hasAgents)
       THEN /\ log' = Append(log, L("agents_not_found", NoFile))
            /\ pc' = "finish"
            /\ UNCHANGED <<agentsDir, calls, exitCode, agentFiles>>
       ELSE IF ~agentsDir /\ ~ok
            THEN /\ Throw(log, Append(calls, Call("mkdirSync", NoFile, FALSE)))
                 /\ UNCHANGED <<agentsDir, agentFiles>>
            ELSE /\ agentsDir' = TRUE
                 /\ agentFiles' = SelectSeq(ReadDirSync(cache.agents), IsAgentFile)
                 /\ log' = IF agentsDir THEN log ELSE Append(log, L("created_dir", NoFile))
                 /\ calls' = (IF agentsDir THEN calls
                              ELSE Append(calls, Call("mkdirSync", NoFile, TRUE)))
                              \o <<Call("readdirSync", NoFile, TRUE)>>
                 /\ pc' = "loop"
                 /\ UNCHANGED exitCode
    /\ idx' = 1
    /\ UNCHANGED <<runs, isLocal, isWindows, claudeDir, dest, outside, cache, source, atStart,
                   procs>>

\* Head of the for-loop and `if (fs.existsSync(targetPath))` (cli.js 194-199).
createSymlinks_exists ==
    /\ pc = "loop"
    /\ pc' = IF idx > Len(agentFiles) THEN "finish"
             ELSE IF ExistsSync(agentFiles[idx], dest, cache, outside) THEN "unlink"
             ELSE "link"
    /\ UNCHANGED <<runs, isLocal, isWindows, exitCode, log, calls, fsVars, source,
                   agentFiles, idx, atStart, procs>>

\* fs.unlinkSync(targetPath) (cli.js 199-202); a failure reaches main's catch.
createSymlinks_unlink(ok) ==
    /\ pc = "unlink"
    /\ LET file == agentFiles[idx]
       IN  IF ok
           THEN /\ dest' = Remove(dest, file)
                /\ log' = Append(log, L("removed", file))
                /\ calls' = Append(calls, Call("unlinkSync", file, TRUE))
                /\ pc' = "link"
                /\ UNCHANGED exitCode
           ELSE /\ Throw(log, Append(calls, Call("unlinkSync", file, FALSE)))
                /\ UNCHANGED dest
    /\ UNCHANGED <<runs, isLocal, isWindows, claudeDir, agentsDir, outside, cache, source,
                   agentFiles, idx, atStart, procs>>

\* Variant: the older step links to a path of the same name outside the cache.
createSymlinks_linkElsewhere(err) ==
    /\ pc = "link"
    /\ LET file == agentFiles[idx]
       IN  IF LinkError(file, err) = "none"
           THEN /\ dest' = Put(dest, file, Symlink(OutsidePath(file)))
                /\ log' = Append(log, L("created_link", file))
                /\ calls' = Append(calls, Call("symlinkSync", file, TRUE))
                /\ idx' = idx + 1
                /\ pc' = "loop"
                /\ UNCHANGED exitCode
           ELSE /\ Throw(log, Append(calls, Call("symlinkSync", file, FALSE)))
                /\ UNCHANGED <<dest, idx>>
    /\ UNCHANGED <<runs, isLocal, isWindows, claudeDir, agentsDir, outside, cache, source,
                   agentFiles, atStart, procs>>

\* fs.symlinkSync(sourcePath, targetPath) (cli.js 204-206): not in a try
\* block, so a failure reaches main's catch and the process exits 1.
createSymlinks_link(err) ==
    /\ pc = "link"
    /\ LET file == agentFiles[idx]
       IN  IF LinkError(file, err) = "none"
           THEN /\ dest' = Put(dest, file, Symlink(CachePath(file)))
                /\ log' = Append(log, L("created_link", file))
                /\ calls' = Append(calls, Call("symlinkSync", file, TRUE))
                /\ idx' = idx + 1
                /\ pc' = "loop"
                /\ UNCHANGED exitCode
           ELSE /\ Throw(log, Append(calls, Call("symlinkSync", file, FALSE)))
                /\ UNCHANGED <<dest, idx>>
    /\ UNCHANGED <<runs, isLocal, isWindows, claudeDir, agentsDir, outside, cache, source,
                   agentFiles, atStart, procs>>

OldNext ==
    \/ \E local \in BOOLEAN, dir \in WorkingDirs : main_start(local, dir)
    \/ \E ok \in BOOLEAN : ensureClaudeDir(ok)
    \/ \E t \in Trees, ok \in BOOLEAN, left \in PartialCopies : cloneOrUpdateRepo(t, ok, left)
    \/ \E ok \in BOOLEAN : createSymlinks(ok)
    \/ createSymlinks_exists
    \/ \E ok \in BOOLEAN : createSymlinks_unlink(ok)
    \/ \E err \in ErrCodes \cup {"none"} : createSymlinks_link(err)
    \/ main_finish

OldSpec == Init /\ [][OldNext]_vars

----------------------------------------------------------------------------
(* Two installer processes at once.  Both have come through the directory
   check and the sync and have read the same listing; each walks the loop of
   createLinks on the shared destination directory, one file-system call per
   step, in any interleaving.  The file system raises no error of its own
   here: a call fails only on what the other process did to the path. *)

Procs == {1, 2}
Peer(p) == 3 - p

\* The entry a run makes with its link call (cli.js 82-88).
InstalledLink(n) == IF isWindows THEN HardLink(cache.agents[n]) ELSE Symlink(CachePath(n))

\* What the destination holds when the two processes enter the loop: nothing,
\* or the links of an earlier run for one or both agent files.
ConcDests ==
    {EmptyDir,
     [n \in {BsvX} |-> InstalledLink(n)],
     [n \in {ABsv, BsvX} |-> InstalledLink(n)]}

ConcInit ==
    /\ isWindows \in BOOLEAN
    /\ claudeDir = TRUE
    /\ agentsDir = TRUE
    /\ cache = Tree(Names, 1)
    /\ outside = EmptyDir
    /\ dest \in ConcDests
    /\ agentFiles = SelectSeq(ReadDirSync(cache.agents), IsAgentFile)
    /\ procs = [p \in Procs |-> [pc |-> "loop", idx |-> 1, exitCode |-> 0, calls |-> <<>>]]
    /\ pc = "idle"
    /\ runs = 0
    /\ isLocal = FALSE
    /\ exitCode = 0
    /\ log = <<>>
    /\ calls = <<>>
    /\ source = cache
    /\ idx = 1
    /\ atStart = [prevOk |-> FALSE, cache |-> cache, view |-> DestView, cwd |-> "elsewhere"]

\* The variables of the one-process flow, which stand still here.
seqVars == <<pc, runs, isLocal, isWindows, exitCode, log, calls, claudeDir, agentsDir,
             source, agentFiles, idx, atStart>>

\* Process p's record after a call on file f that returned (k) or threw.
AfterCall(p, o, f, k) == [procs[p] EXCEPT !.calls = Append(@, Call(o, f, k))]

\* Head of the for-loop and `if (fs.existsSync(targetPath))` in process p;
\* after the last file main prints success and the process exits 0.
conc_exists(p) ==
    /\ procs[p].pc = "loop"
    /\ procs' = [procs EXCEPT ![p].pc =
                    IF procs[p].idx > Len(agentFiles) THEN "done"
                    ELSE IF ExistsSync(agentFiles[procs[p].idx], dest, cache, outside)
                         THEN "unlink"
                         ELSE "link"]
    /\ UNCHANGED <<seqVars, dest, outside, cache>>

\* Variant: a removal that finds the entry gone is ignored.
conc_unlinkForce(p) ==
    /\ procs[p].pc = "unlink"
    /\ LET file == agentFiles[procs[p].idx]
       IN  /\ dest' = Remove(dest, file)
           /\ procs' = [procs EXCEPT
                           ![p] = [AfterCall(p, "unlinkSync", file, Occupied(file, dest))
                                      EXCEPT !.pc = "link"]]
    /\ UNCHANGED <<seqVars, outside, cache>>

\* fs.unlinkSync(targetPath) in process p: it throws ENOENT when the entry is
\* gone, outside the try block, so main's catch ends the process with exit 1.
conc_unlink(p) ==
    /\ procs[p].pc = "unlink"
    /\ LET file == agentFiles[procs[p].idx]
       IN  IF Occupied(file, dest)
           THEN /\ dest' = Remove(dest, file)
                /\ procs' = [procs EXCEPT
                                ![p] = [AfterCall(p, "unlinkSync", file, TRUE)
                                           EXCEPT !.pc = "link"]]
           ELSE /\ procs' = [procs EXCEPT
                                ![p] = [AfterCall(p, "unlinkSync", file, FALSE)
                                           EXCEPT !.pc = "done", !.exitCode = 1]]
                /\ UNCHANGED dest
    /\ UNCHANGED <<seqVars, outside, cache>>

\* try { fs.linkSync / fs.symlinkSync } in process p: EEXIST when the path is
\* occupied, which the catch block answers with the fallback copy.
conc_link(p) ==
    /\ procs[p].pc = "link"
    /\ LET file == agentFiles[procs[p].idx]
           op == IF isWindows THEN "linkSync" ELSE "symlinkSync"
       IN  IF ~Occupied(file, dest)
           THEN /\ dest' = Put(dest, file, InstalledLink(file))
                /\ procs' = [procs EXCEPT
                                ![p] = [AfterCall(p, op, file, TRUE)
                                           EXCEPT !.pc = "loop", !.idx = @ + 1]]
           ELSE /\ procs' = [procs EXCEPT
                                ![p] = [AfterCall(p, op, file, FALSE) EXCEPT !.pc = "copy"]]
                /\ UNCHANGED dest
    /\ UNCHANGED <<seqVars, outside, cache>>

\* fs.copyFileSync(sourcePath, targetPath) of the fallback in process p.
conc_copy(p) ==
    /\ procs[p].pc = "copy"
    /\ LET file == agentFiles[procs[p].idx]
       IN  /\ CopyFileSync(file, cache.agents[file])
           /\ procs' = [procs EXCEPT
                           ![p] = [AfterCall(p, "copyFileSync", file, TRUE)
                                      EXCEPT !.pc = "loop", !.idx = @ + 1]]
    /\ UNCHANGED seqVars

ConcNext ==
    \/ \E p \in Procs : conc_exists(p)
    \/ \E p \in Procs : conc_unlink(p)
    \/ \E p \in Procs : conc_link(p)
    \/ \E p \in Procs : conc_copy(p)

ConcSpec == ConcInit /\ [][ConcNext]_vars

TypeOK ==
    /\ pc \in {"idle", "ensureRoot", "sync", "links", "loop", "unlink", "link", "copy",
               "finish", "done"}
    /\ runs \in 0..MaxRuns
    /\ exitCode \in {0, 1}
    /\ DOMAIN dest \subseteq Names
    /\ idx \in 1..(Len(agentFiles) + 1)

----------------------------------------------------------------------------
(* Vocabulary of the properties *)

\* A qualifying name: ends in the markdown extension and contains the keyword.
Qualifying(n) == EndsWith(Chars(n), <<".", "m", "d">>) /\ Includes(Chars(n), <<"b", "s", "v">>)

LinkOps == {"linkSync", "symlinkSync"}
SyncOps == {"cpSync", "pull", "clone"}
PerFileOps == LinkOps \cup {"unlinkSync", "copyFileSync"}

LinkFailed(n) == \E o \in LinkOps : Called(o, n, FALSE)
LinkAttempted(n) == \E o \in LinkOps, k \in BOOLEAN : Called(o, n, k)
CopyFailed(n) == Called("copyFileSync", n, FALSE)
CopyOk(n) == Called("copyFileSync", n, TRUE)
SyncFailed == \E o \in SyncOps : Called(o, NoFile, FALSE)
\* The loop reached file n: some file-system call was made for it.
Processed(n) == \E i \in 1..Len(calls) : calls[i].file = n
SomethingFailedFor(n) == \E o \in PerFileOps : Called(o, n, FALSE)
CountOp(o) == Cardinality({i \in 1..Len(calls) : calls[i].op = o})

Succeeded == pc = "done" /\ exitCode = 0

\* The qualifying files of the tree the sync of this run read.
SourceAgents == {n \in DOMAIN source.agents : Qualifying(n)}

\* The destination has an entry n that resolves to the content n had at sync time.
HoldsSource(n) ==
    /\ n \in DOMAIN source.agents
    /\ n \in DOMAIN dest
    /\ Resolve(dest[n], cache, outside) = {source.agents[n]}

\* This run succeeded, and so did the run before it, which left in the cache
\* the source this run read: two successful runs on an unchanged source.
SecondRunSameSource ==
    /\ Succeeded
    /\ atStart.prevOk
    /\ source = atStart.cache

----------------------------------------------------------------------------
(* C1 *)

\* C1 as stated: after a run that exits 0, every qualifying file of the
\* source has a destination entry that resolves to its content at sync time.
C1_Original == Succeeded => \A n \in SourceAgents : HoldsSource(n)

\* C1 amended: after a run that exits 0, every qualifying file of the source
\* has a destination entry that resolves to its content at sync time, except
\* the files for which both the link and the fallback copy failed; those are
\* left without an entry that resolves.
C1_Amended ==
    Succeeded =>
        \A n \in SourceAgents :
            IF CopyFailed(n) THEN ~ExistsSync(n, dest, cache, outside) ELSE HoldsSource(n)

C1_Witness ==
    /\ Succeeded
    /\ \E n, m \in SourceAgents :
          /\ n # m
          /\ CopyFailed(n)
          /\ ~CopyFailed(m)
          /\ HoldsSource(m)

----------------------------------------------------------------------------
(* C2 *)

\* C2 as stated: when the link creation fails for a file, the destination
\* entry ends up holding the source content, the warning is printed and the
\* run's exit code is 0.
C2_Original ==
    pc = "done" =>
        \A n \in Names :
            LinkFailed(n) => HoldsSource(n) /\ Logged("warn_copy", n) /\ exitCode = 0

\* C2 amended: when the link creation fails for a file the fallback copy is
\* attempted; if the copy succeeds the entry resolves to the source content
\* and the warning is printed, if it fails an error is printed instead and no
\* warning; the link failure and the fallback leave the exit code at 0 and do
\* not end the run.
C2_Amended ==
    \A n \in Names :
        LinkFailed(n) =>
            /\ \/ pc = "copy" /\ agentFiles[idx] = n
               \/ CopyOk(n)
               \/ CopyFailed(n)
            /\ CopyOk(n) => HoldsSource(n) /\ Logged("warn_copy", n)
            /\ CopyFailed(n) => Logged("copy_failed", n) /\ ~Logged("warn_copy", n)
            /\ calls[Len(calls)].file = n =>
                  /\ exitCode = 0
                  /\ pc = "done" => LoggedMsg("success")

C2_Witness ==
    /\ Succeeded
    /\ \E n \in Names : LinkFailed(n) /\ CopyOk(n) /\ HoldsSource(n) /\ Logged("warn_copy", n)

----------------------------------------------------------------------------
(* C3 *)

\* C3: when the copy, the pull or the clone fails, the run ends with exit
\* code 1 and an error line, and the link step is never entered: no listing,
\* no removal, no link and no copy of a file happens in that run.
C3_SyncFailureAborts ==
    SyncFailed =>
        /\ pc = "done"
        /\ exitCode = 1
        /\ LoggedMsg("error")
        /\ ~LoggedMsg("creating_links")
        /\ ~LoggedMsg("success")
        /\ \A i \in 1..Len(calls) : calls[i].op \notin PerFileOps \cup {"readdirSync"}

C3_Witness ==
    /\ pc = "done"
    /\ Called("pull", NoFile, FALSE)
    /\ atStart.prevOk
    /\ DOMAIN dest # {}

----------------------------------------------------------------------------
(* C4 *)

\* C4 as stated: whatever fails while one qualifying file is handled (the
\* removal, the link, the copy), every later file of the listing is still
\* processed.
C4_Claim ==
    pc = "done" =>
        \A i \in 1..Len(agentFiles) :
            SomethingFailedFor(agentFiles[i]) =>
                \A j \in (i + 1)..Len(agentFiles) : Processed(agentFiles[j])

----------------------------------------------------------------------------
(* C5 *)

\* C5 as stated: when both the link and the fallback copy fail for a file,
\* an error is printed for it, the remaining files are processed and the run
\* prints the success message and exits 0.
C5_Claim ==
    pc = "done" =>
        \A i \in 1..Len(agentFiles) :
            CopyFailed(agentFiles[i]) =>
                /\ Logged("copy_failed", agentFiles[i])
                /\ \A j \in (i + 1)..Len(agentFiles) : Processed(agentFiles[j])
                /\ LoggedMsg("success")
                /\ exitCode = 0

----------------------------------------------------------------------------
(* C6 *)

\* C6 as stated: the exit code is non-zero exactly when a directory creation
\* or the repository sync throws.
C6_Claim ==
    pc = "done" =>
        (exitCode # 0 <=> \E o \in SyncOps \cup {"mkdirSync", "rmSync"} : Called(o, NoFile, FALSE))

----------------------------------------------------------------------------
(* C7 *)

\* C7: an entry the destination did not have when the run started has a
\* qualifying name; the entries with a non-qualifying name are the ones the
\* run found, unchanged; with bsv-x.md, other.md and bsv-y.txt in the source
\* and an empty destination, the destination holds nothing but bsv-x.md.
C7_OnlyQualifyingAppear ==
    runs >= 1 =>
        /\ \A n \in DOMAIN dest : n \notin DOMAIN atStart.view => Qualifying(n)
        /\ \A n \in Names :
              ~Qualifying(n) =>
                  /\ (n \in DOMAIN dest) = (n \in DOMAIN atStart.view)
                  /\ n \in DOMAIN dest => DestView[n] = atStart.view[n]
        /\ (DOMAIN source.agents = {BsvX, Other, BsvY} /\ DOMAIN atStart.view = {})
              => DOMAIN dest \subseteq {BsvX}

C7_Witness ==
    /\ Succeeded
    /\ DOMAIN source.agents = {BsvX, Other, BsvY}
    /\ DOMAIN atStart.view = {}
    /\ DOMAIN dest = {BsvX}

----------------------------------------------------------------------------
(* C8 *)

----------------------------------------------------------------------------
(* C9 *)

\* C9: a run makes at most one of copy, pull and clone, and exactly one once
\* the sync step is over; in local mode no git operation is invoked and the
\* copy follows the removal of the cache when there was one; otherwise it is
\* a pull when the cache existed and a clone when it did not.
C9_ExactlyOneSyncAction ==
    /\ CountOp("cpSync") + CountOp("pull") + CountOp("clone") <= 1
    /\ (pc \in {"links", "loop", "unlink", "link", "copy", "finish"} \/ Succeeded)
          => CountOp("cpSync") + CountOp("pull") + CountOp("clone") = 1
    /\ isLocal =>
          /\ CountOp("pull") = 0 /\ CountOp("clone") = 0
          /\ CountOp("cpSync") = 1 =>
                /\ CountOp("rmSync") = (IF atStart.cache.exists THEN 1 ELSE 0)
                /\ atStart.cache.exists => calls[Len(calls)].op # "rmSync"
    /\ ~isLocal =>
          /\ CountOp("cpSync") = 0 /\ CountOp("rmSync") = 0
          /\ CountOp("pull") = 1 => atStart.cache.exists
          /\ CountOp("clone") = 1 => ~atStart.cache.exists

C9_Witness ==
    /\ Succeeded
    /\ ~isLocal
    /\ atStart.cache.exists
    /\ CountOp("pull") = 1

----------------------------------------------------------------------------
(* C10 *)

\* C10 as stated: after a successful run in local mode the cache equals the
\* working directory and every qualifying file of its agents folder has a
\* destination entry matching its content.
C10_Original ==
    (Succeeded /\ isLocal) => cache = source /\ \A n \in SourceAgents : HoldsSource(n)

\* C10 amended: after a successful run in local mode the cache equals the
\* working directory, nothing of a previous cache surviving, and every
\* qualifying file of its agents folder has a destination entry matching its
\* content unless both the link and the fallback copy failed for it.
C10_Amended ==
    (Succeeded /\ isLocal) =>
        /\ cache = source
        /\ Called("cpSync", NoFile, TRUE)
        /\ atStart.cache.exists => Called("rmSync", NoFile, TRUE)
        /\ \A n \in SourceAgents : CopyFailed(n) \/ HoldsSource(n)

C10_Witness ==
    /\ Succeeded
    /\ isLocal
    /\ atStart.cache.exists
    /\ DOMAIN atStart.cache.agents = Names
    /\ DOMAIN cache.agents = {BsvX, Other, BsvY}
    /\ HoldsSource(BsvX)


----------------------------------------------------------------------------
(* C11 *)

\* The link call the platform of this run selects (cli.js 65, 82-88).
PlatformLinkOp == IF isWindows THEN "linkSync" ELSE "symlinkSync"
PlatformLinkKind == IF isWindows THEN "hardlink" ELSE "symlink"

\* C11: the kind of link is fixed by the platform for the whole run: every
\* link call of a run is a hard link on Windows and a symbolic link elsewhere,
\* the two are never mixed, and an entry a link call made is of that kind.
C11_LinkKindByPlatform ==
    /\ \A i \in 1..Len(calls) :
          calls[i].op \in LinkOps => calls[i].op = PlatformLinkOp
    /\ ~(CalledOp("linkSync") /\ CalledOp("symlinkSync"))
    /\ \A n \in Names :
          Called(PlatformLinkOp, n, TRUE)
             => n \in DOMAIN dest /\ dest[n].kind = PlatformLinkKind

\* A finished run on Windows that hard-linked both agent files.
C11_Witness ==
    /\ pc = "done"
    /\ isWindows
    /\ Called("linkSync", ABsv, TRUE)
    /\ Called("linkSync", BsvX, TRUE)
    /\ dest[ABsv].kind = "hardlink"


----------------------------------------------------------------------------
(* C12 *)

\* The run found no ~/.claude: its first file-system call is the mkdirSync of
\* ensureDirectoryExists(CLAUDE_DIR) (the one for the agents directory always
\* follows a sync call).
RootWasAbsent == Len(calls) > 0 /\ calls[1].op = "mkdirSync"

\* C12 as stated: a run that found no installation root leaves one behind,
\* whatever happens in the later steps.
C12_Original == (pc = "done" /\ RootWasAbsent) => claudeDir

\* C12 amended: a run that found no installation root leaves one behind,
\* whatever happens in the sync and link steps, unless the creation itself
\* threw; then the root is still absent, no further step ran and the run
\* ended with exit code 1.
C12_Amended ==
    (pc = "done" /\ RootWasAbsent)
       => IF calls[1].ok
          THEN claudeDir
          ELSE /\ ~claudeDir
               /\ Len(calls) = 1
               /\ exitCode = 1
               /\ LoggedMsg("error")
               /\ ~LoggedMsg("success")

\* A run that created the root and then failed in the sync step.
C12_Witness ==
    /\ pc = "done"
    /\ RootWasAbsent
    /\ calls[1].ok
    /\ SyncFailed
    /\ exitCode = 1
    /\ claudeDir


----------------------------------------------------------------------------
(* C13 *)

\* One application of ensureDirectoryExists to a directory that exists:
\* no call, no output, no error, nothing on disk changes.
EnsureLeavesAlone == UNCHANGED <<fsVars, log, calls, exitCode>>

\* The mkdirSync of an application to an absent directory returned / threw.
EnsureCreated == calls' = Append(calls, Call("mkdirSync", NoFile, TRUE)) /\ UNCHANGED exitCode
EnsureThrew ==
    /\ calls' = Append(calls, Call("mkdirSync", NoFile, FALSE))
    /\ exitCode' = 1
    /\ pc' = "done"
    /\ UNCHANGED fsVars

\* The link step is about to apply ensureDirectoryExists to the agents directory.
AtEnsureAgents == pc = "links" /\ cache.exists /\ cache.hasAgents

\* C13 as stated: applied to an absent path ensureDirectory creates the
\* directory; applied to an existing one it raises nothing and changes
\* nothing, so a second application leaves things as the first one did.
C13_Original ==
    [][ /\ pc = "ensureRoot"
           => /\ claudeDir'
              /\ claudeDir => (EnsureLeavesAlone /\ pc' = "sync")
        /\ AtEnsureAgents
           => /\ agentsDir'
              /\ agentsDir => (calls' = Append(calls, Call("readdirSync", NoFile, TRUE))
                               /\ UNCHANGED <<claudeDir, agentsDir, exitCode>>)
      ]_vars

\* C13 amended: applied to an absent path ensureDirectory calls mkdirSync
\* once, and the directory exists afterwards unless that call throws (then
\* the path is still absent and the run ends with exit code 1); applied to an
\* existing one it makes no call, raises nothing and changes nothing, so a
\* second application after a successful one leaves things as they were.
C13_Amended ==
    [][ /\ pc = "ensureRoot"
           => IF claudeDir
              THEN EnsureLeavesAlone /\ pc' = "sync"
              ELSE \/ (claudeDir' /\ EnsureCreated /\ pc' = "sync")
                   \/ (~claudeDir' /\ EnsureThrew)
        /\ AtEnsureAgents
           => IF agentsDir
              THEN /\ calls' = Append(calls, Call("readdirSync", NoFile, TRUE))
                   /\ UNCHANGED <<claudeDir, agentsDir, exitCode>>
              ELSE \/ /\ agentsDir'
                      /\ calls' = calls \o <<Call("mkdirSync", NoFile, TRUE),
                                             Call("readdirSync", NoFile, TRUE)>>
                      /\ UNCHANGED exitCode
                   \/ (~agentsDir' /\ EnsureThrew)
      ]_vars

\* The second run has applied ensureDirectoryExists to the root the first run
\* created (the agents directory was never made): no call, and it is at the sync step.
C13_Witness ==
    /\ runs = 2
    /\ pc = "sync"
    /\ calls = <<>>
    /\ log = <<L("start", NoFile)>>
    /\ claudeDir
    /\ ~agentsDir


----------------------------------------------------------------------------
(* C14 *)

\* C14: no step of any run, in either mode, deletes the installation root or
\* the destination agents directory; the only directory removal the tool
\* makes is the rmSync of the cache repository in the sync step of a
\* local-mode run, and only there can the cache directory disappear.
C14_OnlyCacheRemoved ==
    [][ /\ claudeDir => claudeDir'
        /\ agentsDir => agentsDir'
        /\ (cache.exists /\ ~cache'.exists) => (pc = "sync" /\ isLocal)
        /\ (Len(calls') > Len(calls)
              /\ \E i \in (Len(calls) + 1)..Len(calls') : calls'[i].op = "rmSync")
           => (pc = "sync" /\ isLocal /\ cache.exists)
      ]_vars

\* A local-mode run removed the cache directory while the root and a
\* populated agents directory were there, and both are still there.
C14_Witness ==
    /\ pc = "done"
    /\ isLocal
    /\ Called("rmSync", NoFile, TRUE)
    /\ DOMAIN atStart.view # {}
    /\ claudeDir
    /\ agentsDir


----------------------------------------------------------------------------
(* C15 *)

\* C15 as stated: when the link call for a qualifying file is about to be
\* made, nothing occupies the destination path of that name: whatever entry
\* was there (a regular file, a link, a link whose target is gone) has been
\* removed.
C15_Claim == pc = "link" => ~Occupied(agentFiles[idx], dest)


----------------------------------------------------------------------------
(* C16 *)

\* Position of a name in the listing the loop walks.
FilePos(n) == CHOOSE i \in 1..Len(agentFiles) : agentFiles[i] = n

\* The step of main a call belongs to: 1 the root-directory check, 2 the
\* repository sync, 3 the entry of the link step, 4 the per-file loop.
Phase(i) ==
    LET o == calls[i].op
    IN  IF o = "mkdirSync" THEN (IF i = 1 THEN 1 ELSE 3)
        ELSE IF o \in SyncOps \cup {"rmSync"} THEN 2
        ELSE IF o = "readdirSync" THEN 3
        ELSE 4

\* Order of the calls made for one file.
StepRank(o) == IF o = "unlinkSync" THEN 1 ELSE IF o \in LinkOps THEN 2 ELSE 3

\* The loop is through with file n: it was linked, or its link failed and the
\* fallback copy returned or failed.
Handled(n) ==
    \/ \E o \in LinkOps : Called(o, n, TRUE)
    \/ LinkFailed(n) /\ (CopyOk(n) \/ CopyFailed(n))

SyncCompleted == \E o \in SyncOps : Called(o, NoFile, TRUE)

\* C16: the calls of a run are made in the order root-directory check, sync,
\* then the files one at a time in listing order, each file's calls together;
\* no per-file call is made and the loop is not entered before the sync call
\* has returned, and the success message is printed only when every file of
\* the listing has been handled and after all per-file output.
C16_StrictOrder ==
    /\ \A i, j \in 1..Len(calls) : i < j => Phase(i) <= Phase(j)
    /\ \A i, j \in 1..Len(calls) :
          (i < j /\ Phase(i) = 4 /\ Phase(j) = 4)
             => \/ FilePos(calls[i].file) < FilePos(calls[j].file)
                \/ /\ calls[i].file = calls[j].file
                   /\ StepRank(calls[i].op) < StepRank(calls[j].op)
    /\ \A i \in 1..Len(calls) :
          Phase(i) = 4
             => \E j \in 1..(i - 1) : calls[j].op \in SyncOps /\ calls[j].ok
    /\ pc \in {"links", "loop", "unlink", "link", "copy", "finish"} => SyncCompleted
    /\ LoggedMsg("success")
          => /\ \A k \in 1..Len(agentFiles) : Handled(agentFiles[k])
             /\ \A i, j \in 1..Len(log) :
                   (log[i].msg = "success" /\ log[j].file # NoFile) => j < i

\* A successful run that created the root, synced and handled two files.
C16_Witness ==
    /\ Succeeded
    /\ LoggedMsg("success")
    /\ RootWasAbsent
    /\ Len(agentFiles) = 2
    /\ Processed(agentFiles[1])
    /\ Processed(agentFiles[2])


----------------------------------------------------------------------------
(* C17 *)

ReportsSuccess == LoggedMsg("success") /\ exitCode = 0 /\ ~LoggedMsg("error")
ReportsError == LoggedMsg("error") /\ exitCode = 1 /\ ~LoggedMsg("success")
Running == pc \notin {"idle", "done"}

\* C17: every started run ends (the sync call returning), and a run that has
\* ended has printed either the success message with exit code 0 or the
\* error message with exit code 1, never both and never neither; while it is
\* running it has printed neither.
C17_TerminatesWithOneOutcome ==
    /\ [](pc = "done" => (ReportsSuccess \/ ReportsError))
    /\ [](pc = "done" => ~(LoggedMsg("success") /\ LoggedMsg("error")))
    /\ [](Running => (~LoggedMsg("success") /\ ~LoggedMsg("error") /\ exitCode = 0))
    /\ (Running ~> pc = "done")

\* Both outcomes in one behaviour: a run that ended with the error message
\* and exit code 1 after a run that ended with success.
C17_Witness ==
    /\ pc = "done"
    /\ runs = 2
    /\ atStart.prevOk
    /\ ReportsError


----------------------------------------------------------------------------
(* C18 *)

LinkCalls(n) == {i \in 1..Len(calls) : calls[i].file = n /\ calls[i].op \in LinkOps}
CopyCalls(n) == {i \in 1..Len(calls) : calls[i].file = n /\ calls[i].op = "copyFileSync"}

\* The run entered the per-file part of the link step.
ReachedLinkStep == LoggedMsg("creating_links")

\* C18 as stated: a finished run that reached the link step has made exactly
\* one link call for every qualifying name of the cache's agents folder and
\* none for any other name; it has made at most one copy call per name, and
\* only after a failed link call for that name.
C18_Claim ==
    (pc = "done" /\ ReachedLinkStep)
       => \A n \in Names :
             /\ (n \in DOMAIN cache.agents /\ Qualifying(n)) => Cardinality(LinkCalls(n)) = 1
             /\ ~(n \in DOMAIN cache.agents /\ Qualifying(n)) => LinkCalls(n) = {}
             /\ Cardinality(CopyCalls(n)) <= 1
             /\ \A i \in CopyCalls(n) : \E j \in LinkCalls(n) : j < i /\ ~calls[j].ok


----------------------------------------------------------------------------
(* C19 *)

\* What the cache's file of name n reads as now: empty when it is gone.
CacheNow(n) == ReadPath(CachePath(n), cache, outside)

\* A symbolic link in the destination other than the user's stale one.
InstalledSymlink(n) ==
    n \in DOMAIN dest /\ dest[n].kind = "symlink" /\ dest[n] # DanglingLink

\* C19: an entry the tool made as a symbolic link reads as the cache's file
\* of that name reads at that moment, also after a later sync has changed
\* the cache; an entry made by the fallback copy holds the content the cache
\* file had when it was copied and no step changes it until a run removes
\* that entry again when it handles that name.
C19_LinkFollowsCopyStays ==
    /\ [](\A n \in Names :
             /\ InstalledSymlink(n) => DestView[n] = CacheNow(n)
             /\ Called("symlinkSync", n, TRUE)
                   => (InstalledSymlink(n) /\ DestView[n] = {cache.agents[n]})
             /\ (CopyOk(n) /\ n \in DOMAIN dest /\ dest[n].kind = "file")
                   => dest[n].content = cache.agents[n])
    /\ [][\A n \in DOMAIN dest :
             dest[n].kind = "file"
                => \/ n \in DOMAIN dest' /\ dest'[n] = dest[n]
                   \/ pc = "unlink" /\ agentFiles[idx] = n
         ]_vars

\* The second run has pulled a new version and not yet touched the entries:
\* the symbolic link of the first run already reads the new content, the
\* copy of the first run still holds the old one.
C19_Witness ==
    /\ runs = 2
    /\ pc = "links"
    /\ ~isWindows
    /\ InstalledSymlink(ABsv)
    /\ DestView[ABsv] = {ContentOf(ABsv, 2)}
    /\ BsvX \in DOMAIN dest
    /\ dest[BsvX] = RegularFile(ContentOf(BsvX, 1))
    /\ CacheNow(BsvX) = {ContentOf(BsvX, 2)}


----------------------------------------------------------------------------
(* C20 *)

\* C20: a removal that throws is not handled per file: it is the last call
\* of the run, no link or copy is tried for that file and nothing per-file is
\* printed for the failure, the run has ended with the error message and
\* exit code 1 and without the success message, and no file after it in the
\* listing has been processed.
C20_RemovalFailureIsFatal ==
    \A i \in 1..Len(calls) :
        (calls[i].op = "unlinkSync" /\ ~calls[i].ok)
           => /\ i = Len(calls)
              /\ pc = "done"
              /\ exitCode = 1
              /\ log[Len(log)] = L("error", NoFile)
              /\ ~LoggedMsg("success")
              /\ ~LinkAttempted(calls[i].file)
              /\ ~Logged("link_failed", calls[i].file)
              /\ ~Logged("fallback", calls[i].file)
              /\ \A k \in (FilePos(calls[i].file) + 1)..Len(agentFiles) :
                    ~Processed(agentFiles[k])

\* A run ended by the failed removal of the first of two files.
C20_Witness ==
    /\ pc = "done"
    /\ Len(agentFiles) = 2
    /\ Called("unlinkSync", agentFiles[1], FALSE)
    /\ ~Processed(agentFiles[2])
    /\ exitCode = 1


----------------------------------------------------------------------------
(* C21 *)

NoAgentsFolder == ~(cache.exists /\ cache.hasAgents)

\* C21: when the synced cache has no agents folder, the link step prints the
\* "not found" error and returns: it makes no call, creates neither the
\* destination agents directory nor any entry, and the run goes on to print
\* the success message and exit with code 0.
C21_MissingAgentsFolder ==
    /\ [][(pc = "links" /\ NoAgentsFolder)
             => /\ log' = Append(log, L("agents_not_found", NoFile))
                /\ pc' = "finish"
                /\ UNCHANGED <<fsVars, calls, exitCode>>]_vars
    /\ [](LoggedMsg("agents_not_found")
             => /\ pc \in {"finish", "done"}
                /\ exitCode = 0
                /\ ~LoggedMsg("error")
                /\ ~LoggedMsg("creating_links")
                /\ \A i \in 1..Len(calls) : Phase(i) <= 2
                /\ pc = "done" => (ReportsSuccess /\ log[Len(log)] = L("available", NoFile)))

\* A run on a machine without agents directory found no agents folder in the
\* cache and ended with success; the agents directory is still missing.
C21_Witness ==
    /\ pc = "done"
    /\ LoggedMsg("agents_not_found")
    /\ SyncCompleted
    /\ ReportsSuccess
    /\ claudeDir
    /\ ~agentsDir
    /\ dest = EmptyDir


----------------------------------------------------------------------------
(* C22 *)

\* The entry of name n is the same before and after the step.
EntryUnchanged(n) ==
    /\ (n \in DOMAIN dest) = (n \in DOMAIN dest')
    /\ n \in DOMAIN dest => dest'[n] = dest[n]

\* n is a qualifying file of the listing the current run reads.
InCurrentListing(n) ==
    cache.exists /\ cache.hasAgents /\ n \in DOMAIN cache.agents /\ Qualifying(n)

\* C22: a step changes a destination entry only when it is the removal, link
\* or copy of the file the loop is at, and that file is a qualifying file of
\* the current listing; every other entry, a user's file or the entry of a
\* file that has left the source, stays exactly as it is.
C22_OnlyListedEntriesChange ==
    [][\A n \in Names :
          EntryUnchanged(n)
             \/ /\ pc \in {"unlink", "link", "copy"}
                /\ n = agentFiles[idx]
                /\ InCurrentListing(n)
      ]_vars

\* After a second, successful run: the link of the first run for a file that
\* has left the source is still there, while another file was handled.
C22_Witness ==
    /\ Succeeded
    /\ runs = 2
    /\ cache.hasAgents
    /\ ABsv \notin DOMAIN cache.agents
    /\ InstalledSymlink(ABsv)
    /\ Processed(BsvX)


----------------------------------------------------------------------------
(* C23 *)

\* The destination had an entry of name n when the run started.
HadEntry(n) == n \in DOMAIN atStart.view

\* C23 as stated: after a run in which the link and the fallback copy both
\* failed for a file that had a destination entry before the run, the
\* destination has no entry of that name.
C23_Claim ==
    pc = "done"
       => \A n \in Names :
             (HadEntry(n) /\ LinkFailed(n) /\ CopyFailed(n)) => ~Occupied(n, dest)


----------------------------------------------------------------------------
(* C24 *)

----------------------------------------------------------------------------
(* C25 *)

\* The tree under the working directory that a local-mode sync can reach:
\* the cache itself when the process runs inside it, the cache as the
\* subtree of ~/.claude when it runs there, and for any other directory the
\* tree the sync read, which no step of the installer writes.
WorkingDirAtStart == IF LOCAL_REPO = "elsewhere" THEN source ELSE atStart.cache
WorkingDirNow == IF LOCAL_REPO = "elsewhere" THEN source ELSE cache

\* C25 as stated: after a local-mode run, whatever the working directory is
\* (the cache path and a directory containing it included), the working
\* directory holds what it held before the run.
C25_Claim == (pc = "done" /\ isLocal) => WorkingDirNow = WorkingDirAtStart


----------------------------------------------------------------------------
(* C26 *)

\* Process p made the call o on file f with outcome k.
PCalled(p, o, f, k) ==
    \E i \in 1..Len(procs[p].calls) : procs[p].calls[i] = Call(o, f, k)

PLinkFailed(p, f) == \E o \in LinkOps : PCalled(p, o, f, FALSE)
PLinked(p, f) == \E o \in LinkOps : PCalled(p, o, f, TRUE)

\* C26: with two runs interleaved call by call, the check, the removal and
\* the link of one path are separate steps.  A removal fails exactly on an
\* entry the other run removed after this run had seen it, and that is fatal
\* to this run (last call, exit code 1) and the only way it ends non-zero; a
\* link attempt fails exactly on an entry the other run has created in the
\* meantime, and this run goes on to the fallback copy.
C26_ChecksAreNotAtomic ==
    \A p \in Procs :
        /\ \A i \in 1..Len(procs[p].calls) :
              LET c == procs[p].calls[i]
              IN  /\ (c.op = "unlinkSync" /\ ~c.ok)
                        => /\ i = Len(procs[p].calls)
                           /\ procs[p].pc = "done"
                           /\ procs[p].exitCode = 1
                           /\ PCalled(Peer(p), "unlinkSync", c.file, TRUE)
                  /\ (c.op \in LinkOps /\ ~c.ok)
                        => /\ PLinked(Peer(p), c.file)
                           /\ \/ procs[p].pc = "copy" /\ i = Len(procs[p].calls)
                              \/ PCalled(p, "copyFileSync", c.file, TRUE)
        /\ procs[p].exitCode = 1
              => /\ procs[p].pc = "done"
                 /\ Len(procs[p].calls) > 0
                 /\ LET c == procs[p].calls[Len(procs[p].calls)]
                    IN  c.op = "unlinkSync" /\ ~c.ok

\* Both races in one behaviour: process 1 died on the removal of an entry
\* process 2 had removed, and process 2 had a link attempt fail on an entry
\* process 1 had created.
C26_Witness ==
    /\ procs # <<>>
    /\ procs[1].pc = "done"
    /\ procs[1].exitCode = 1
    /\ PCalled(1, "unlinkSync", BsvX, FALSE)
    /\ PLinkFailed(2, ABsv)
    /\ PLinked(1, ABsv)


----------------------------------------------------------------------------
(* C27 *)

\* A step of the loop of createLinks (anything but its fallback copy).
NewLoopStep ==
    \/ createLinks_exists
    \/ \E ok \in BOOLEAN : createLinks_unlink(ok)
    \/ \E err \in ErrCodes \cup {"none"} : createLinks_link(err)

InLoop == pc \in {"loop", "unlink", "link"}

\* The older step's link call of this step threw.
OldLinkThrew == pc = "link" /\ exitCode' = 1

\* C27: off Windows, the older link step enters its loop with the listing
\* and the agents directory createLinks enters it with, and every step of
\* its loop in which no link creation fails is, state for state, the step
\* createLinks takes: same destination, same exit code.  The two part only
\* at a failed link creation: the older step ends the run there with exit
\* code 1, nothing copied, where createLinks goes on to the fallback copy.
C27_SameUnlessLinkFails ==
    /\ [](InLoop => (agentsDir
                     /\ agentFiles = SelectSeq(ReadDirSync(cache.agents), IsAgentFile)))
    /\ [][(~isWindows /\ InLoop /\ ~OldLinkThrew) => NewLoopStep]_vars
    /\ [][(~isWindows /\ OldLinkThrew)
             => /\ pc' = "done"
                /\ calls' = Append(calls, Call("symlinkSync", agentFiles[idx], FALSE))
                /\ UNCHANGED fsVars
                /\ ~NewLoopStep]_vars
    /\ [](~CalledOp("copyFileSync"))

\* A run of the older script off Windows that linked the first file as
\* createLinks does and ended at the failed link of the second.
C27_Witness ==
    /\ pc = "done"
    /\ ~isWindows
    /\ exitCode = 1
    /\ Called("symlinkSync", ABsv, TRUE)
    /\ InstalledSymlink(ABsv)
    /\ Called("symlinkSync", BsvX, FALSE)
    /\ calls[Len(calls)] = Call("symlinkSync", BsvX, FALSE)


----------------------------------------------------------------------------
(* C28 *)

\* The entry of name n is a symbolic link to the file of the same name in
\* the cache's agents folder.
PointsToOwnSource(n) ==
    /\ dest[n].kind = "symlink"
    /\ dest[n].target.dir = "cache"
    /\ dest[n].target.name = n

\* C28: a link call that succeeded for name n in this run left, under that
\* same name, a symbolic link to the cache's file n or a hard link holding
\* that file's content, and n is a file of the cache's agents folder; at all
\* times every symbolic link in the destination other than the user's stale
\* one points into the cache at the file of its own name.
C28_LinksPointIntoCache ==
    /\ \A n \in Names :
          (\E o \in LinkOps : Called(o, n, TRUE))
             => /\ n \in DOMAIN dest
                /\ n \in DOMAIN cache.agents
                /\ IF isWindows
                   THEN dest[n].kind = "hardlink" /\ dest[n].content = cache.agents[n]
                   ELSE PointsToOwnSource(n)
    /\ \A n \in DOMAIN dest :
          (dest[n].kind = "symlink" /\ dest[n] # DanglingLink) => PointsToOwnSource(n)

\* A successful run off Windows that linked both agent files, each to the
\* cache file of its own name.
C28_Witness ==
    /\ Succeeded
    /\ ~isWindows
    /\ Called("symlinkSync", ABsv, TRUE)
    /\ Called("symlinkSync", BsvX, TRUE)
    /\ PointsToOwnSource(ABsv)
    /\ PointsToOwnSource(BsvX)

====
